---- MODULE Spec2Model ----
(***************************************************************************)
(* Model of pytorch_lightning/trainer/progress.py: the progress-counter    *)
(* tree (Tracker, Progress, EpochProgress, OptimizerProgress,              *)
(* OptimizationProgress, EpochLoopProgress, TrainingValLoopPorgress,       *)
(* TrainingEpochProgress, FitLoopProgress) and its state_dict protocol.    *)
(*                                                                         *)
(* Python's None is encoded as -1: every counter the program stores is a   *)
(* non-negative integer, and the values written here are drawn from        *)
(* 0..MaxVal, so -1 is never a counter value.                              *)
(***************************************************************************)
EXTENDS Integers, FiniteSets, Sequences, TLC

VARIABLES
    tracker,    \* a Tracker instance
    tinit,      \* that Tracker as it was constructed or last restored
    tpure,      \* TRUE while it saw only reset, reset_on_restart and integer
                \* writes since then
    tcall,      \* the last call made on it: operation, arguments, pre-state
    progress,   \* a Progress instance
    pbase,      \* that Progress at construction or at its last window reset
    pcnt,       \* per stage, the increment_<stage>() calls made since pbase
    pn,         \* the increment_* calls made on it in all
    pcall,      \* the last call made on it
    fit,        \* a FitLoopProgress instance, the root of the tree
    fcall,      \* the last call made on the tree
    nops,       \* the increment_* calls and index writes made on the tree
    nEpoch,     \* the fit.increment_epoch_completed() calls made
    nEpochDirect, \* the fit.epoch.increment_completed() calls made
    nStep,      \* the fit.epoch.optim.optimizer.step.increment_completed() calls
    restored    \* what from_state_dict gave for the tree's state_dict

tvars == <<tracker, tinit, tpure, tcall>>
pvars == <<progress, pbase, pcnt, pn, pcall>>
fvars == <<fit, fcall, nops, nEpoch, nEpochDirect, nStep, restored>>
vars == <<tvars, pvars, fvars>>

None == 0 - 1

\* largest integer a direct field write stores
MaxVal == 2
\* the count a persisted Tracker mapping carries for an enabled field
MapMax == 1
\* increment_* calls made on the Progress instance
MaxCalls == 3
\* increment_* calls and index writes made on the FitLoopProgress tree
MaxOps == 2
\* largest dataloader_idx / optimizer_idx the loop driver writes
MaxIdx == 1

Fields == {"ready", "started", "processed", "completed"}

\* ------------------------------------------------------------------------
\* Tracker
\* ------------------------------------------------------------------------

\* Tracker(**kwargs): the dataclass constructor, every field defaulting to 0
Tracker(kwargs) ==
    [f \in Fields |-> IF f \in DOMAIN kwargs THEN kwargs[f] ELSE 0]

NoKwargs == [f \in {} |-> 0]

\* the fields of a Tracker that are disabled (None)
Disabled(t) == {f \in Fields : t[f] = None}

\* Tracker.__setattr__ with the guard removed
Tracker_setattr_unguarded(t, key, value) ==
    [raised |-> "ok", obj |-> [t EXCEPT ![key] = value]]

\* Tracker.__setattr__
Tracker_setattr(t, key, value) ==
    IF t[key] = None
    THEN [raised |-> "AttributeError", obj |-> t]
    ELSE [raised |-> "ok", obj |-> [t EXCEPT ![key] = value]]

\* `if self.<key> is not None: self.<key> = value`, as reset and
\* reset_on_restart do for each field in turn
AssignIfUsed(t, key, value) ==
    IF t[key] # None THEN Tracker_setattr(t, key, value).obj ELSE t

\* Tracker.reset assigning 0 to every field whether used or not
Tracker_reset_all_fields(t) == [f \in Fields |-> 0]

\* Tracker.reset
Tracker_reset(t) ==
    LET t1 == AssignIfUsed(t, "ready", 0)
        t2 == AssignIfUsed(t1, "started", 0)
        t3 == AssignIfUsed(t2, "processed", 0)
    IN  AssignIfUsed(t3, "completed", 0)

\* whether one of the assignments of Tracker.reset raises
Tracker_reset_raises(t) ==
    LET Raises(u, key) ==
            u[key] # None /\ Tracker_setattr(u, key, 0).raised # "ok"
        t1 == AssignIfUsed(t, "ready", 0)
        t2 == AssignIfUsed(t1, "started", 0)
        t3 == AssignIfUsed(t2, "processed", 0)
    IN  \/ Raises(t, "ready")
        \/ Raises(t1, "started")
        \/ Raises(t2, "processed")
        \/ Raises(t3, "completed")

\* Tracker.reset_on_restart leaving `ready` as it was
Tracker_reset_on_restart_skip_ready(t) ==
    LET value == IF t.processed = None THEN t.completed ELSE t.processed
        t2 == AssignIfUsed(t, "started", value)
        t3 == AssignIfUsed(t2, "processed", value)
    IN  AssignIfUsed(t3, "completed", value)

\* Tracker.reset_on_restart carrying `completed` forward unconditionally
Tracker_reset_on_restart_completed(t) ==
    LET value == t.completed
        t1 == AssignIfUsed(t, "ready", value)
        t2 == AssignIfUsed(t1, "started", value)
        t3 == AssignIfUsed(t2, "processed", value)
    IN  AssignIfUsed(t3, "completed", value)

\* Tracker.reset_on_restart
Tracker_reset_on_restart(t) ==
    LET value == IF t.processed = None THEN t.completed ELSE t.processed
        t1 == AssignIfUsed(t, "ready", value)
        t2 == AssignIfUsed(t1, "started", value)
        t3 == AssignIfUsed(t2, "processed", value)
    IN  AssignIfUsed(t3, "completed", value)

\* _DataclassStateDictMixin.__getstate__ / state_dict on a Tracker:
\* asdict() lists the four dataclass fields, None included
Tracker_state_dict(t) ==
    [ready |-> t.ready, started |-> t.started,
     processed |-> t.processed, completed |-> t.completed]

\* _DataclassStateDictMixin.__setstate__ on a Tracker:
\* self.__dict__.update(state) overwrites the keys the mapping has, keeps the
\* others, and does not go through __setattr__
Tracker_setstate(t, state) ==
    [f \in Fields |-> IF f \in DOMAIN state THEN state[f] ELSE t[f]]

\* from_state_dict for cls = Tracker that skips the null entries of the mapping
Tracker_from_state_dict_skip_null(state) ==
    [raised |-> "ok",
     obj |-> [f \in Fields |->
                IF f \in DOMAIN state /\ state[f] # None THEN state[f] ELSE 0]]

\* _DataclassStateDictMixin.from_state_dict for cls = Tracker
Tracker_from_state_dict(state) ==
    LET obj == Tracker(NoKwargs)
    IN  [raised |-> "ok", obj |-> Tracker_setstate(obj, state)]

\* ------------------------------------------------------------------------
\* Progress
\* ------------------------------------------------------------------------

\* Progress(): total and current from the default factory Tracker
Progress_default ==
    [total |-> Tracker(NoKwargs), current |-> Tracker(NoKwargs)]

\* Progress.from_defaults
Progress_from_defaults(kwargs) ==
    [total |-> Tracker(kwargs), current |-> Tracker(kwargs)]

\* Progress.increment_<stage> guarding on total only
Progress_increment_total_guard(p, stage) ==
    IF p.total[stage] = None
    THEN [raised |-> "ok", obj |-> p]
    ELSE LET r1 == Tracker_setattr(p.total, stage, p.total[stage] + 1)
             p1 == [p EXCEPT !.total = r1.obj]
             r2 == Tracker_setattr(p1.current, stage, p1.current[stage] + 1)
         IN  IF r1.raised # "ok" THEN [raised |-> r1.raised, obj |-> p1]
             ELSE [raised |-> r2.raised,
                   obj |-> [p1 EXCEPT !.current = r2.obj]]

\* Progress.increment_ready / increment_started / increment_processed /
\* increment_completed: the four methods differ only in the field they name
Progress_increment(p, stage) ==
    IF p.total[stage] = None \/ p.current[stage] = None
    THEN [raised |-> "ok", obj |-> p]
    ELSE LET r1 == Tracker_setattr(p.total, stage, p.total[stage] + 1)
             p1 == [p EXCEPT !.total = r1.obj]
             r2 == Tracker_setattr(p1.current, stage, p1.current[stage] + 1)
         IN  IF r1.raised # "ok" THEN [raised |-> r1.raised, obj |-> p1]
             ELSE [raised |-> r2.raised,
                   obj |-> [p1 EXCEPT !.current = r2.obj]]

\* state_dict on a Progress: asdict() recurses into total and current
Progress_state_dict(p) ==
    [total |-> Tracker_state_dict(p.total),
     current |-> Tracker_state_dict(p.current)]

\* Progress.__setstate__: state["total"], then state["current"]; a missing
\* key raises KeyError after the assignments already made
Progress_setstate(p, state) ==
    IF "total" \notin DOMAIN state THEN [raised |-> "KeyError", obj |-> p]
    ELSE LET p1 == [p EXCEPT !.total = Tracker_setstate(p.total, state.total)]
         IN  IF "current" \notin DOMAIN state
             THEN [raised |-> "KeyError", obj |-> p1]
             ELSE [raised |-> "ok",
                   obj |-> [p1 EXCEPT !.current =
                               Tracker_setstate(p1.current, state.current)]]

\* _DataclassStateDictMixin.from_state_dict for cls = Progress
Progress_from_state_dict(state) ==
    Progress_setstate(Progress_default, state)

\* ------------------------------------------------------------------------
\* EpochProgress (BatchProgress is Progress under another name)
\* ------------------------------------------------------------------------

\* EpochProgress()
EpochProgress_default ==
    [total |-> Tracker(NoKwargs), current |-> Tracker(NoKwargs),
     dataloader_idx |-> 0, batch |-> Progress_default]

\* EpochProgress.reset_on_epoch resetting batch.total in place of
\* batch.current
EpochProgress_reset_on_epoch_total(e) ==
    [e EXCEPT !.batch.total = Tracker_reset(@)]

\* EpochProgress.reset_on_epoch
EpochProgress_reset_on_epoch(e) ==
    [e EXCEPT !.batch.current = Tracker_reset(@)]

\* state_dict on an EpochProgress
EpochProgress_state_dict(e) ==
    [total |-> Tracker_state_dict(e.total),
     current |-> Tracker_state_dict(e.current),
     dataloader_idx |-> e.dataloader_idx,
     batch |-> Progress_state_dict(e.batch)]

\* EpochProgress.__setstate__ leaving dataloader_idx as constructed
EpochProgress_setstate_no_idx(e, state) ==
    LET r1 == Progress_setstate(e, state) IN
    IF r1.raised # "ok" THEN r1
    ELSE IF "batch" \notin DOMAIN state
    THEN [raised |-> "KeyError", obj |-> r1.obj]
    ELSE LET r2 == Progress_setstate(r1.obj.batch, state.batch)
         IN  [raised |-> r2.raised, obj |-> [r1.obj EXCEPT !.batch = r2.obj]]

\* EpochProgress.__setstate__
EpochProgress_setstate(e, state) ==
    LET r1 == Progress_setstate(e, state) IN
    IF r1.raised # "ok" THEN r1
    ELSE IF "batch" \notin DOMAIN state
    THEN [raised |-> "KeyError", obj |-> r1.obj]
    ELSE LET r2 == Progress_setstate(r1.obj.batch, state.batch)
             e2 == [r1.obj EXCEPT !.batch = r2.obj]
         IN  IF r2.raised # "ok" THEN [raised |-> r2.raised, obj |-> e2]
             ELSE IF "dataloader_idx" \notin DOMAIN state
             THEN [raised |-> "KeyError", obj |-> e2]
             ELSE [raised |-> "ok",
                   obj |-> [e2 EXCEPT !.dataloader_idx = state.dataloader_idx]]

\* from_state_dict for cls = EpochProgress
EpochProgress_from_state_dict(state) ==
    EpochProgress_setstate(EpochProgress_default, state)

\* ------------------------------------------------------------------------
\* OptimizerProgress, OptimizationProgress
\* ------------------------------------------------------------------------

\* OptimizerProgress(): step and zero_grad from_defaults(processed=None)
OptimizerProgress_default ==
    [step |-> Progress_from_defaults([processed |-> None]),
     zero_grad |-> Progress_from_defaults([processed |-> None])]

\* OptimizerProgress.reset_on_epoch resetting step.total in place of
\* step.current
OptimizerProgress_reset_on_epoch_total(o) ==
    LET o1 == [o EXCEPT !.step.total = Tracker_reset(@)]
    IN  [o1 EXCEPT !.zero_grad.current = Tracker_reset(@)]

\* OptimizerProgress.reset_on_epoch
OptimizerProgress_reset_on_epoch(o) ==
    LET o1 == [o EXCEPT !.step.current = Tracker_reset(@)]
    IN  [o1 EXCEPT !.zero_grad.current = Tracker_reset(@)]

\* state_dict on an OptimizerProgress
OptimizerProgress_state_dict(o) ==
    [step |-> Progress_state_dict(o.step),
     zero_grad |-> Progress_state_dict(o.zero_grad)]

\* OptimizerProgress.__setstate__
OptimizerProgress_setstate(o, state) ==
    IF "step" \notin DOMAIN state THEN [raised |-> "KeyError", obj |-> o]
    ELSE LET r1 == Progress_setstate(o.step, state.step)
             o1 == [o EXCEPT !.step = r1.obj]
         IN  IF r1.raised # "ok" THEN [raised |-> r1.raised, obj |-> o1]
             ELSE IF "zero_grad" \notin DOMAIN state
             THEN [raised |-> "KeyError", obj |-> o1]
             ELSE LET r2 == Progress_setstate(o1.zero_grad, state.zero_grad)
                  IN  [raised |-> r2.raised,
                       obj |-> [o1 EXCEPT !.zero_grad = r2.obj]]

\* from_state_dict for cls = OptimizerProgress
OptimizerProgress_from_state_dict(state) ==
    OptimizerProgress_setstate(OptimizerProgress_default, state)

\* OptimizationProgress() with the scheduler built from_defaults(processed=None)
OptimizationProgress_default_scheduler_started ==
    [optimizer_idx |-> 0,
     optimizer |-> OptimizerProgress_default,
     scheduler |-> Progress_from_defaults([processed |-> None])]

\* OptimizationProgress(): scheduler from_defaults(started=None, processed=None)
OptimizationProgress_default ==
    [optimizer_idx |-> 0,
     optimizer |-> OptimizerProgress_default,
     scheduler |-> Progress_from_defaults([started |-> None,
                                           processed |-> None])]

\* OptimizationProgress.optimizer_steps
optimizer_steps(o) == o.optimizer.step.total.completed

\* OptimizationProgress.scheduler_steps
scheduler_steps(o) == o.scheduler.total.completed

\* OptimizationProgress.reset_on_epoch resetting optimizer_idx as well
OptimizationProgress_reset_on_epoch_idx(o) ==
    LET o1 == [o EXCEPT !.optimizer = OptimizerProgress_reset_on_epoch(@)]
        o2 == [o1 EXCEPT !.scheduler.current = Tracker_reset(@)]
    IN  [o2 EXCEPT !.optimizer_idx = 0]

\* OptimizationProgress.reset_on_epoch
OptimizationProgress_reset_on_epoch(o) ==
    LET o1 == [o EXCEPT !.optimizer = OptimizerProgress_reset_on_epoch(@)]
    IN  [o1 EXCEPT !.scheduler.current = Tracker_reset(@)]

\* state_dict on an OptimizationProgress
OptimizationProgress_state_dict(o) ==
    [optimizer_idx |-> o.optimizer_idx,
     optimizer |-> OptimizerProgress_state_dict(o.optimizer),
     scheduler |-> Progress_state_dict(o.scheduler)]

\* OptimizationProgress.__setstate__
OptimizationProgress_setstate(o, state) ==
    IF "optimizer" \notin DOMAIN state THEN [raised |-> "KeyError", obj |-> o]
    ELSE LET r1 == OptimizerProgress_setstate(o.optimizer, state.optimizer)
             o1 == [o EXCEPT !.optimizer = r1.obj]
         IN  IF r1.raised # "ok" THEN [raised |-> r1.raised, obj |-> o1]
             ELSE IF "scheduler" \notin DOMAIN state
             THEN [raised |-> "KeyError", obj |-> o1]
             ELSE LET r2 == Progress_setstate(o1.scheduler, state.scheduler)
                      o2 == [o1 EXCEPT !.scheduler = r2.obj]
                  IN  IF r2.raised # "ok"
                      THEN [raised |-> r2.raised, obj |-> o2]
                      ELSE IF "optimizer_idx" \notin DOMAIN state
                      THEN [raised |-> "KeyError", obj |-> o2]
                      ELSE [raised |-> "ok",
                            obj |-> [o2 EXCEPT !.optimizer_idx =
                                                  state.optimizer_idx]]

\* from_state_dict for cls = OptimizationProgress
OptimizationProgress_from_state_dict(state) ==
    OptimizationProgress_setstate(OptimizationProgress_default, state)

\* ------------------------------------------------------------------------
\* EpochLoopProgress, TrainingValLoopPorgress
\* ------------------------------------------------------------------------

\* EpochLoopProgress()
EpochLoopProgress_default == [epoch |-> EpochProgress_default]

\* EpochLoopProgress.total_epoch_completed
total_epoch_completed(l) == l.epoch.total.completed

\* EpochLoopProgress.reset_on_epoch leaving epoch.current as it is
EpochLoopProgress_reset_on_epoch_keep_current(l) ==
    [l EXCEPT !.epoch = EpochProgress_reset_on_epoch(@)]

\* EpochLoopProgress.reset_on_epoch
EpochLoopProgress_reset_on_epoch(l) ==
    LET l1 == [l EXCEPT !.epoch = EpochProgress_reset_on_epoch(@)]
    IN  [l1 EXCEPT !.epoch.current = Tracker_reset(@)]

\* EpochLoopProgress.increment_epoch_completed on an instance whose
\* reset_on_epoch is EpochLoopProgress's own
EpochLoopProgress_increment_epoch_completed(l) ==
    LET l1 == [l EXCEPT !.epoch = Progress_increment(@, "completed").obj]
    IN  EpochLoopProgress_reset_on_epoch(l1)

\* state_dict on an EpochLoopProgress
EpochLoopProgress_state_dict(l) ==
    [epoch |-> EpochProgress_state_dict(l.epoch)]

\* EpochLoopProgress.__setstate__ on an instance whose epoch is an
\* EpochProgress
EpochLoopProgress_setstate(l, state) ==
    IF "epoch" \notin DOMAIN state THEN [raised |-> "KeyError", obj |-> l]
    ELSE LET r == EpochProgress_setstate(l.epoch, state.epoch)
         IN  [raised |-> r.raised, obj |-> [l EXCEPT !.epoch = r.obj]]

\* from_state_dict for cls = EpochLoopProgress
EpochLoopProgress_from_state_dict(state) ==
    EpochLoopProgress_setstate(EpochLoopProgress_default, state)

\* TrainingValLoopPorgress()
TrainingValLoopPorgress_default ==
    [epoch |-> EpochProgress_default, should_check_val |-> FALSE]

\* state_dict on a TrainingValLoopPorgress
TrainingValLoopPorgress_state_dict(v) ==
    [epoch |-> EpochProgress_state_dict(v.epoch),
     should_check_val |-> v.should_check_val]

\* TrainingValLoopPorgress.__setstate__
TrainingValLoopPorgress_setstate(v, state) ==
    IF "epoch" \notin DOMAIN state THEN [raised |-> "KeyError", obj |-> v]
    ELSE LET r == EpochProgress_setstate(v.epoch, state.epoch)
             v1 == [v EXCEPT !.epoch = r.obj]
         IN  IF r.raised # "ok" THEN [raised |-> r.raised, obj |-> v1]
             ELSE IF "should_check_val" \notin DOMAIN state
             THEN [raised |-> "KeyError", obj |-> v1]
             ELSE [raised |-> "ok",
                   obj |-> [v1 EXCEPT !.should_check_val =
                                         state.should_check_val]]

\* from_state_dict for cls = TrainingValLoopPorgress
TrainingValLoopPorgress_from_state_dict(state) ==
    TrainingValLoopPorgress_setstate(TrainingValLoopPorgress_default, state)

\* ------------------------------------------------------------------------
\* TrainingEpochProgress, FitLoopProgress
\* ------------------------------------------------------------------------

\* TrainingEpochProgress()
TrainingEpochProgress_default ==
    [total |-> Tracker(NoKwargs), current |-> Tracker(NoKwargs),
     dataloader_idx |-> 0, batch |-> Progress_default,
     optim |-> OptimizationProgress_default,
     val |-> TrainingValLoopPorgress_default]

\* state_dict on a TrainingEpochProgress
TrainingEpochProgress_state_dict(e) ==
    [total |-> Tracker_state_dict(e.total),
     current |-> Tracker_state_dict(e.current),
     dataloader_idx |-> e.dataloader_idx,
     batch |-> Progress_state_dict(e.batch),
     optim |-> OptimizationProgress_state_dict(e.optim),
     val |-> TrainingValLoopPorgress_state_dict(e.val)]

\* TrainingEpochProgress.__setstate__
TrainingEpochProgress_setstate(e, state) ==
    LET r1 == EpochProgress_setstate(e, state) IN
    IF r1.raised # "ok" THEN r1
    ELSE IF "optim" \notin DOMAIN state
    THEN [raised |-> "KeyError", obj |-> r1.obj]
    ELSE LET r2 == OptimizationProgress_setstate(r1.obj.optim, state.optim)
             e2 == [r1.obj EXCEPT !.optim = r2.obj]
         IN  IF r2.raised # "ok" THEN [raised |-> r2.raised, obj |-> e2]
             ELSE IF "val" \notin DOMAIN state
             THEN [raised |-> "KeyError", obj |-> e2]
             ELSE LET r3 == TrainingValLoopPorgress_setstate(e2.val, state.val)
                  IN  [raised |-> r3.raised, obj |-> [e2 EXCEPT !.val = r3.obj]]

\* from_state_dict for cls = TrainingEpochProgress
TrainingEpochProgress_from_state_dict(state) ==
    TrainingEpochProgress_setstate(TrainingEpochProgress_default, state)

\* FitLoopProgress()
FitLoopProgress_default == [epoch |-> TrainingEpochProgress_default]

\* FitLoopProgress.reset_on_epoch that also resets epoch.current, as the
\* inherited EpochLoopProgress.reset_on_epoch does
FitLoopProgress_reset_on_epoch_all(f) ==
    LET f1 == [f EXCEPT !.epoch = EpochProgress_reset_on_epoch(@)]
        f2 == [f1 EXCEPT !.epoch.current = Tracker_reset(@)]
    IN  [f2 EXCEPT !.epoch.optim = OptimizationProgress_reset_on_epoch(@)]

\* FitLoopProgress.reset_on_epoch
FitLoopProgress_reset_on_epoch(f) ==
    LET f1 == [f EXCEPT !.epoch = EpochProgress_reset_on_epoch(@)]
    IN  [f1 EXCEPT !.epoch.optim = OptimizationProgress_reset_on_epoch(@)]

\* EpochLoopProgress.increment_epoch_completed on a FitLoopProgress:
\* self.reset_on_epoch() dispatches to FitLoopProgress.reset_on_epoch
FitLoopProgress_increment_epoch_completed(f) ==
    LET f1 == [f EXCEPT !.epoch = Progress_increment(@, "completed").obj]
    IN  FitLoopProgress_reset_on_epoch(f1)

\* FitLoopProgress.total_optimizer_step_completed
total_optimizer_step_completed(f) ==
    f.epoch.optim.optimizer.step.total.completed

\* state_dict on a FitLoopProgress
FitLoopProgress_state_dict(f) ==
    [epoch |-> TrainingEpochProgress_state_dict(f.epoch)]

\* EpochLoopProgress.__setstate__ inherited by FitLoopProgress, whose epoch
\* is a TrainingEpochProgress
FitLoopProgress_setstate(f, state) ==
    IF "epoch" \notin DOMAIN state THEN [raised |-> "KeyError", obj |-> f]
    ELSE LET r == TrainingEpochProgress_setstate(f.epoch, state.epoch)
         IN  [raised |-> r.raised, obj |-> [f EXCEPT !.epoch = r.obj]]

\* from_state_dict for cls = FitLoopProgress
FitLoopProgress_from_state_dict(state) ==
    FitLoopProgress_setstate(FitLoopProgress_default, state)

\* ------------------------------------------------------------------------
\* Inputs
\* ------------------------------------------------------------------------

\* the 16 ways to construct a Tracker with some fields disabled
Partitions == {[f \in D |-> None] : D \in SUBSET Fields}

WriteValues == (0 .. MaxVal) \cup {None}

\* persisted Tracker mappings: each key either missing, null or a count
TrackerMappings ==
    UNION {[D -> {None, MapMax}] : D \in SUBSET Fields}

NoCall == [op |-> "init", key |-> "ready", value |-> 0, state |-> NoKwargs,
           pre |-> Tracker(NoKwargs), raised |-> "ok"]

\* persisted Tracker mappings nested in a Progress mapping: all four keys,
\* the enabled ones carrying one count
FullTrackerMappings ==
    {[f \in Fields |-> IF f \in D THEN None ELSE v] :
        D \in SUBSET Fields, v \in 0 .. MapMax}

\* persisted Progress mappings: total and current each missing or a Tracker
\* mapping
ProgressMappings ==
    UNION {[D -> FullTrackerMappings] : D \in SUBSET {"total", "current"}}

NoCounts == [f \in Fields |-> 0]

NoProgressCall == [op |-> "init", stage |-> "ready", state |-> NoKwargs,
                   pre |-> Progress_default, raised |-> "ok"]

\* the Progress instance of a run that only exercises a Tracker
ProgressIdle ==
    /\ progress = Progress_default
    /\ pbase = Progress_default
    /\ pcnt = NoCounts
    /\ pn = 0
    /\ pcall = NoProgressCall

\* the Tracker instance of a run that does not exercise it
TrackerIdle ==
    /\ tracker = Tracker(NoKwargs)
    /\ tinit = tracker
    /\ tpure = TRUE
    /\ tcall = NoCall

\* the Progress nodes of the FitLoopProgress tree
ProgressNodes ==
    {"epoch", "epoch.batch", "epoch.optim.optimizer.step",
     "epoch.optim.optimizer.zero_grad", "epoch.optim.scheduler",
     "epoch.val.epoch", "epoch.val.epoch.batch"}

\* the Progress at `node` of the tree
GetNode(f, node) ==
    CASE node = "epoch" -> f.epoch
      [] node = "epoch.batch" -> f.epoch.batch
      [] node = "epoch.optim.optimizer.step" -> f.epoch.optim.optimizer.step
      [] node = "epoch.optim.optimizer.zero_grad" ->
           f.epoch.optim.optimizer.zero_grad
      [] node = "epoch.optim.scheduler" -> f.epoch.optim.scheduler
      [] node = "epoch.val.epoch" -> f.epoch.val.epoch
      [] node = "epoch.val.epoch.batch" -> f.epoch.val.epoch.batch

\* the total Tracker of every Progress of the tree
Totals(f) == [node \in ProgressNodes |-> GetNode(f, node).total]

\* dataloader_idx, optimizer_idx and should_check_val throughout the tree
Indexes(f) ==
    [dataloader_idx |-> f.epoch.dataloader_idx,
     val_dataloader_idx |-> f.epoch.val.epoch.dataloader_idx,
     optimizer_idx |-> f.epoch.optim.optimizer_idx,
     should_check_val |-> f.epoch.val.should_check_val]

\* <node>.increment_<stage>() on the Progress at `node` of the tree
IncrementNode(f, node, stage) ==
    CASE node = "epoch" ->
           [f EXCEPT !.epoch = Progress_increment(@, stage).obj]
      [] node = "epoch.batch" ->
           [f EXCEPT !.epoch.batch = Progress_increment(@, stage).obj]
      [] node = "epoch.optim.optimizer.step" ->
           [f EXCEPT !.epoch.optim.optimizer.step =
                        Progress_increment(@, stage).obj]
      [] node = "epoch.optim.optimizer.zero_grad" ->
           [f EXCEPT !.epoch.optim.optimizer.zero_grad =
                        Progress_increment(@, stage).obj]
      [] node = "epoch.optim.scheduler" ->
           [f EXCEPT !.epoch.optim.scheduler =
                        Progress_increment(@, stage).obj]
      [] node = "epoch.val.epoch" ->
           [f EXCEPT !.epoch.val.epoch = Progress_increment(@, stage).obj]
      [] node = "epoch.val.epoch.batch" ->
           [f EXCEPT !.epoch.val.epoch.batch =
                        Progress_increment(@, stage).obj]

NoFitCall == [op |-> "init", node |-> "epoch", stage |-> "ready"]

NoRestored == [raised |-> "none", obj |-> FitLoopProgress_default]

\* a fresh FitLoopProgress on which nothing was called
FitIdle ==
    /\ fit = FitLoopProgress_default
    /\ fcall = NoFitCall
    /\ nops = 0
    /\ nEpoch = 0
    /\ nEpochDirect = 0
    /\ nStep = 0
    /\ restored = NoRestored

\* ------------------------------------------------------------------------
\* One Tracker under direct writes, reset and reset_on_restart
\* ------------------------------------------------------------------------

TrackerInit ==
    /\ \E kwargs \in Partitions : tracker = Tracker(kwargs)
    /\ tinit = tracker
    /\ tpure = TRUE
    /\ tcall = NoCall
    /\ ProgressIdle
    /\ FitIdle

\* tracker.<key> = value
WriteField ==
    \E key \in Fields, value \in WriteValues :
        LET r == Tracker_setattr(tracker, key, value) IN
        /\ tracker' = r.obj
        /\ tcall' = [op |-> "setattr", key |-> key, value |-> value,
                     state |-> NoKwargs, pre |-> tracker, raised |-> r.raised]
        /\ tpure' = (tpure /\ (value # None \/ r.raised # "ok"))
        /\ UNCHANGED <<tinit, pvars, fvars>>

\* tracker.reset()
Reset ==
    /\ tracker' = Tracker_reset(tracker)
    /\ tcall' = [NoCall EXCEPT !.op = "reset", !.pre = tracker,
                               !.raised = IF Tracker_reset_raises(tracker)
                                          THEN "AttributeError" ELSE "ok"]
    /\ UNCHANGED <<tinit, tpure, pvars, fvars>>

\* tracker.reset_on_restart()
ResetOnRestart ==
    /\ tracker' = Tracker_reset_on_restart(tracker)
    /\ tcall' = [NoCall EXCEPT !.op = "reset_on_restart", !.pre = tracker]
    /\ UNCHANGED <<tinit, tpure, pvars, fvars>>

TrackerNext == WriteField \/ Reset \/ ResetOnRestart

SpecTracker == TrackerInit /\ [][TrackerNext]_vars

\* ------------------------------------------------------------------------
\* One Tracker under restore
\* ------------------------------------------------------------------------

\* tracker.__setstate__(state) on the existing instance
SetState ==
    \E state \in TrackerMappings :
        /\ tracker' = Tracker_setstate(tracker, state)
        /\ tcall' = [NoCall EXCEPT !.op = "setstate", !.state = state,
                                   !.pre = tracker]
        /\ tinit' = tracker'
        /\ tpure' = TRUE
        /\ UNCHANGED <<pvars, fvars>>

\* tracker = Tracker.from_state_dict(state)
FromStateDict ==
    \E state \in TrackerMappings :
        LET r == Tracker_from_state_dict(state) IN
        /\ tracker' = r.obj
        /\ tcall' = [NoCall EXCEPT !.op = "from_state_dict", !.state = state,
                                   !.raised = r.raised]
        /\ tinit' = tracker'
        /\ tpure' = TRUE
        /\ UNCHANGED <<pvars, fvars>>

\* the first field write on the Tracker that from_state_dict(state) returned
WriteRestored ==
    /\ tcall.op = "from_state_dict"
    /\ \E key \in Fields, value \in WriteValues :
        LET r == Tracker_setattr(tracker, key, value) IN
        /\ tracker' = r.obj
        /\ tcall' = [op |-> "setattr_restored", key |-> key, value |-> value,
                     state |-> tcall.state, pre |-> tracker,
                     raised |-> r.raised]
        /\ tpure' = (value # None \/ r.raised # "ok")
    /\ UNCHANGED <<tinit, pvars, fvars>>

RestoreNext == SetState \/ FromStateDict \/ WriteRestored

SpecRestore == TrackerInit /\ [][RestoreNext]_vars

\* ------------------------------------------------------------------------
\* One Progress: construction, increments, window resets
\* ------------------------------------------------------------------------

ProgressInit ==
    /\ ProgressIdle
    /\ TrackerIdle
    /\ FitIdle

\* progress = Progress.from_defaults(**kwargs)
FromDefaults ==
    /\ pcall.op = "init"
    /\ \E kwargs \in Partitions :
        /\ progress' = Progress_from_defaults(kwargs)
        /\ pbase' = progress'
        /\ pcall' = [NoProgressCall EXCEPT !.op = "from_defaults"]
    /\ UNCHANGED <<pcnt, pn, tvars, fvars>>

\* progress = Progress.from_state_dict(state); when it raises there is no
\* instance to go on with
ProgressFromStateDict ==
    /\ pcall.op = "init"
    /\ \E state \in ProgressMappings :
        LET r == Progress_from_state_dict(state) IN
        /\ progress' = IF r.raised = "ok" THEN r.obj ELSE progress
        /\ pbase' = progress'
        /\ pcall' = [NoProgressCall EXCEPT !.op = "from_state_dict",
                                           !.state = state,
                                           !.raised = r.raised]
    /\ UNCHANGED <<pcnt, pn, tvars, fvars>>

\* progress.increment_<stage>()
Increment ==
    /\ pcall.raised = "ok"
    /\ pn < MaxCalls
    /\ \E stage \in Fields :
        LET r == Progress_increment(progress, stage) IN
        /\ progress' = r.obj
        /\ pcnt' = [pcnt EXCEPT ![stage] = @ + 1]
        /\ pcall' = [NoProgressCall EXCEPT !.op = "increment",
                                           !.stage = stage,
                                           !.pre = progress,
                                           !.raised = r.raised]
    /\ pn' = pn + 1
    /\ UNCHANGED <<pbase, tvars, fvars>>

\* progress.current.reset(), the window reset the composites perform
ResetCurrent ==
    /\ pcall.raised = "ok"
    /\ progress' = [progress EXCEPT !.current = Tracker_reset(@)]
    /\ pbase' = progress'
    /\ pcnt' = NoCounts
    /\ pcall' = [NoProgressCall EXCEPT !.op = "current.reset",
                                       !.pre = progress]
    /\ UNCHANGED <<pn, tvars, fvars>>

ProgressNext ==
    FromDefaults \/ ProgressFromStateDict \/ Increment \/ ResetCurrent

SpecProgress == ProgressInit /\ [][ProgressNext]_vars

\* ------------------------------------------------------------------------
\* The FitLoopProgress tree under the loop driver and the checkpoint calls
\* ------------------------------------------------------------------------

FitInit ==
    /\ FitIdle
    /\ TrackerIdle
    /\ ProgressIdle

\* fit.<node>.increment_<stage>()
FitIncrement ==
    /\ nops < MaxOps
    /\ \E node \in ProgressNodes, stage \in Fields :
        /\ fit' = IncrementNode(fit, node, stage)
        /\ fcall' = [op |-> "increment", node |-> node, stage |-> stage]
        /\ nEpochDirect' = IF node = "epoch" /\ stage = "completed"
                           THEN nEpochDirect + 1 ELSE nEpochDirect
        /\ nStep' = IF node = "epoch.optim.optimizer.step"
                       /\ stage = "completed"
                    THEN nStep + 1 ELSE nStep
    /\ nops' = nops + 1
    /\ restored' = NoRestored
    /\ UNCHANGED <<nEpoch, tvars, pvars>>

\* fit.increment_epoch_completed()
FitIncrementEpochCompleted ==
    /\ nops < MaxOps
    /\ fit' = FitLoopProgress_increment_epoch_completed(fit)
    /\ fcall' = [NoFitCall EXCEPT !.op = "fit.increment_epoch_completed"]
    /\ nEpoch' = nEpoch + 1
    /\ nops' = nops + 1
    /\ restored' = NoRestored
    /\ UNCHANGED <<nEpochDirect, nStep, tvars, pvars>>

\* fit.epoch.val.increment_epoch_completed()
ValIncrementEpochCompleted ==
    /\ nops < MaxOps
    /\ fit' = [fit EXCEPT !.epoch.val =
                  EpochLoopProgress_increment_epoch_completed(@)]
    /\ fcall' = [NoFitCall EXCEPT !.op = "val.increment_epoch_completed"]
    /\ nops' = nops + 1
    /\ restored' = NoRestored
    /\ UNCHANGED <<nEpoch, nEpochDirect, nStep, tvars, pvars>>

\* fit.reset_on_epoch()
FitResetOnEpoch ==
    /\ fit' = FitLoopProgress_reset_on_epoch(fit)
    /\ fcall' = [NoFitCall EXCEPT !.op = "fit.reset_on_epoch"]
    /\ restored' = NoRestored
    /\ UNCHANGED <<nops, nEpoch, nEpochDirect, nStep, tvars, pvars>>

\* reset_on_epoch() called on a node below the root
NodeResetOnEpoch ==
    /\ \E node \in {"epoch", "epoch.optim", "epoch.optim.optimizer",
                    "epoch.val", "epoch.val.epoch"} :
        /\ fit' =
            CASE node = "epoch" ->
                   [fit EXCEPT !.epoch = EpochProgress_reset_on_epoch(@)]
              [] node = "epoch.optim" ->
                   [fit EXCEPT !.epoch.optim =
                                  OptimizationProgress_reset_on_epoch(@)]
              [] node = "epoch.optim.optimizer" ->
                   [fit EXCEPT !.epoch.optim.optimizer =
                                  OptimizerProgress_reset_on_epoch(@)]
              [] node = "epoch.val" ->
                   [fit EXCEPT !.epoch.val =
                                  EpochLoopProgress_reset_on_epoch(@)]
              [] node = "epoch.val.epoch" ->
                   [fit EXCEPT !.epoch.val.epoch =
                                  EpochProgress_reset_on_epoch(@)]
        /\ fcall' = [NoFitCall EXCEPT !.op = "reset_on_epoch", !.node = node]
    /\ restored' = NoRestored
    /\ UNCHANGED <<nops, nEpoch, nEpochDirect, nStep, tvars, pvars>>

\* the loop driver writes dataloader_idx, optimizer_idx or should_check_val
WriteIndex ==
    /\ nops < MaxOps
    /\ \/ \E i \in 0 .. MaxIdx :
            \/ fit' = [fit EXCEPT !.epoch.dataloader_idx = i]
            \/ fit' = [fit EXCEPT !.epoch.val.epoch.dataloader_idx = i]
            \/ fit' = [fit EXCEPT !.epoch.optim.optimizer_idx = i]
       \/ \E b \in BOOLEAN :
            fit' = [fit EXCEPT !.epoch.val.should_check_val = b]
    /\ fcall' = [NoFitCall EXCEPT !.op = "write_index"]
    /\ nops' = nops + 1
    /\ restored' = NoRestored
    /\ UNCHANGED <<nEpoch, nEpochDirect, nStep, tvars, pvars>>

\* the checkpoint subsystem saves the tree and restores the saved mapping
\* into a fresh FitLoopProgress
SaveAndRestore ==
    /\ fcall.op # "round_trip"
    /\ restored' = FitLoopProgress_from_state_dict(FitLoopProgress_state_dict(fit))
    /\ fcall' = [NoFitCall EXCEPT !.op = "round_trip"]
    /\ UNCHANGED <<fit, nops, nEpoch, nEpochDirect, nStep, tvars, pvars>>

FitNext ==
    \/ FitIncrement
    \/ FitIncrementEpochCompleted
    \/ ValIncrementEpochCompleted
    \/ FitResetOnEpoch
    \/ NodeResetOnEpoch
    \/ WriteIndex
    \/ SaveAndRestore

SpecFit == FitInit /\ [][FitNext]_vars

\* ------------------------------------------------------------------------
\* Claims on the Tracker
\* ------------------------------------------------------------------------

\* C1: a disabled (None) field of a Tracker never becomes active under any
\* operation on the instance, restore (__setstate__) included; restoring a
\* mapping that carries an integer for a disabled field fails.
C1_DisabledNeverActivated ==
    /\ \A f \in Fields : tcall.pre[f] = None => tracker[f] = None
    /\ (tcall.op = "setstate"
        /\ \E f \in DOMAIN tcall.state :
              tcall.pre[f] = None /\ tcall.state[f] # None)
       => tcall.raised # "ok"

\* C2: a direct write of any value to a disabled field raises the
\* attribute-unused error and leaves all four fields unchanged.
C2_DisabledWriteRaises ==
    (tcall.op = "setattr" /\ tcall.pre[tcall.key] = None)
    => (tcall.raised = "AttributeError" /\ tracker = tcall.pre)

\* the write `step.total.processed = 1` on the Tracker a default-constructed
\* OptimizerProgress holds
C2_Witness ==
    /\ tcall.op = "setattr"
    /\ tcall.pre = OptimizerProgress_default.step.total
    /\ tcall.key = "processed"
    /\ tcall.pre[tcall.key] = None
    /\ tcall.value = 1
    /\ tcall.raised = "AttributeError"
    /\ tracker = tcall.pre

\* C4: restoring from a persisted mapping that is missing an expected key
\* raises an error, also for a Tracker mapping lacking one of the four fields.
C4_MissingKeyRaises ==
    (tcall.op \in {"setstate", "from_state_dict"}
     /\ DOMAIN tcall.state # Fields)
    => tcall.raised # "ok"

\* C6: after any sequence of reset(), reset_on_restart() and direct writes of
\* integer values, the set of disabled fields is the one fixed at construction.
C6_PartitionFixed ==
    tpure => Disabled(tracker) = Disabled(tinit)

\* C7: after reset_on_restart() every enabled field holds the pre-call value
\* of processed when processed is enabled, else the pre-call value of
\* completed; disabled fields stay unset.
C7_RestartCarriesForward ==
    tcall.op = "reset_on_restart" =>
        LET carried == IF tcall.pre.processed # None
                       THEN tcall.pre.processed ELSE tcall.pre.completed
        IN  \A f \in Fields :
               /\ tcall.pre[f] # None => tracker[f] = carried
               /\ tcall.pre[f] = None => tracker[f] = None

C7_Witness ==
    /\ tcall.op = "reset_on_restart"
    /\ tcall.pre.processed # None
    /\ tcall.pre.completed # None
    /\ tcall.pre.processed # tcall.pre.completed
    /\ tcall.pre.ready # None
    /\ tcall.pre.ready # tcall.pre.processed
    /\ tracker.ready = tcall.pre.processed

\* ------------------------------------------------------------------------
\* Claims on the Progress
\* ------------------------------------------------------------------------

\* C5: in every reachable state of a Progress, total and current have the
\* identical enabled/disabled partition, also after restoring from any
\* persisted mapping that from_state_dict accepts.
C5_SamePartition ==
    pcall.raised = "ok" => Disabled(progress.total) = Disabled(progress.current)

\* C8: n calls of increment_<stage>() raise total.<stage> and
\* current.<stage> by exactly n each when the stage is enabled on both;
\* when it is disabled on total or on current the call raises no error and
\* changes neither Tracker.
C8_IncrementBoth ==
    /\ pcall.op = "increment" => pcall.raised = "ok"
    /\ pcall.raised = "ok" =>
         \A s \in Fields :
            IF pbase.total[s] # None /\ pbase.current[s] # None
            THEN /\ progress.total[s] = pbase.total[s] + pcnt[s]
                 /\ progress.current[s] = pbase.current[s] + pcnt[s]
            ELSE /\ progress.total[s] = pbase.total[s]
                 /\ progress.current[s] = pbase.current[s]

C8_Witness ==
    /\ pcall.op = "increment"
    /\ pcnt.completed = 2
    /\ progress.total.completed = pbase.total.completed + 2
    /\ progress.current.completed = pbase.current.completed + 2
    /\ pcnt.processed = 1
    /\ progress.total.processed # None
    /\ progress.current.processed = None
    /\ progress.total.processed = pbase.total.processed

\* ------------------------------------------------------------------------
\* Claims on the FitLoopProgress tree
\* ------------------------------------------------------------------------

\* the enabled fields of `post` are 0 and the disabled fields of `pre` are
\* still disabled
Zeroed(pre, post) ==
    \A f \in Fields : post[f] = IF pre[f] = None THEN None ELSE 0

\* C3: round-trip law. For every type of the tree and every state reachable
\* from a default-constructed instance, from_state_dict(state_dict(x)) raises
\* nothing and equals x in every field (enabled values, None partition,
\* dataloader_idx, optimizer_idx, should_check_val) and in every derived
\* property.
C3_RoundTrip ==
    LET e == fit.epoch
        RT(r, x) == r.raised = "ok" /\ r.obj = x
    IN
    /\ fcall.op = "round_trip" =>
         /\ RT(restored, fit)
         /\ total_epoch_completed(restored.obj) = total_epoch_completed(fit)
         /\ total_optimizer_step_completed(restored.obj)
               = total_optimizer_step_completed(fit)
         /\ optimizer_steps(restored.obj.epoch.optim) = optimizer_steps(e.optim)
         /\ scheduler_steps(restored.obj.epoch.optim) = scheduler_steps(e.optim)
    /\ RT(FitLoopProgress_from_state_dict(FitLoopProgress_state_dict(fit)), fit)
    /\ RT(TrainingEpochProgress_from_state_dict(
              TrainingEpochProgress_state_dict(e)), e)
    /\ RT(TrainingValLoopPorgress_from_state_dict(
              TrainingValLoopPorgress_state_dict(e.val)), e.val)
    /\ RT(EpochLoopProgress_from_state_dict(
              EpochLoopProgress_state_dict([epoch |-> e.val.epoch])),
          [epoch |-> e.val.epoch])
    /\ RT(EpochProgress_from_state_dict(EpochProgress_state_dict(e.val.epoch)),
          e.val.epoch)
    /\ RT(OptimizationProgress_from_state_dict(
              OptimizationProgress_state_dict(e.optim)), e.optim)
    /\ RT(OptimizerProgress_from_state_dict(
              OptimizerProgress_state_dict(e.optim.optimizer)),
          e.optim.optimizer)
    /\ \A p \in {e.batch, e.optim.optimizer.step, e.optim.optimizer.zero_grad,
                 e.optim.scheduler, e.val.epoch.batch} :
          /\ RT(Progress_from_state_dict(Progress_state_dict(p)), p)
          /\ RT(Tracker_from_state_dict(Tracker_state_dict(p.total)), p.total)
          /\ RT(Tracker_from_state_dict(Tracker_state_dict(p.current)),
                p.current)

C3_Witness ==
    /\ fcall.op = "round_trip"
    /\ restored.raised = "ok"
    /\ restored.obj = fit
    /\ fit.epoch.dataloader_idx = 1
    /\ fit.epoch.optim.scheduler.total.completed = 1
    /\ fit.epoch.optim.scheduler.total.started = None

\* C9 as claimed: after any interleaving of increment_epoch_completed(),
\* reset_on_epoch(), step.increment_completed() and other increment_* calls,
\* total_epoch_completed is the number of increment_epoch_completed() calls
\* and total_optimizer_step_completed the number of step.increment_completed()
\* calls; after fit.reset_on_epoch() step.current.completed is 0.
C9_TotalsCountCalls ==
    /\ total_epoch_completed(fit) = nEpoch
    /\ total_optimizer_step_completed(fit) = nStep
    /\ fcall.op = "fit.reset_on_epoch" =>
          fit.epoch.optim.optimizer.step.current.completed = 0

\* C9 amended: as claimed, with the increment_* calls made directly on
\* fit.epoch counted too: total_epoch_completed is the number of
\* increment_epoch_completed() calls plus the number of direct
\* fit.epoch.increment_completed() calls.
C9_TotalsCountCallsAmended ==
    /\ total_epoch_completed(fit) = nEpoch + nEpochDirect
    /\ total_optimizer_step_completed(fit) = nStep
    /\ fcall.op = "fit.reset_on_epoch" =>
          fit.epoch.optim.optimizer.step.current.completed = 0

C9_Witness ==
    /\ fcall.op = "fit.reset_on_epoch"
    /\ nEpoch = 1
    /\ nEpochDirect = 0
    /\ nStep = 1
    /\ total_epoch_completed(fit) = 1
    /\ total_optimizer_step_completed(fit) = 1
    /\ fit.epoch.optim.optimizer.step.current.completed = 0

\* C10: FitLoopProgress.reset_on_epoch() leaves every field of epoch.current
\* unchanged and sets every enabled field of epoch.optim.scheduler.current,
\* epoch.optim.optimizer.step.current, epoch.optim.optimizer.zero_grad.current
\* and epoch.batch.current to 0.
C10_FitResetOnEpoch ==
    [][fcall'.op = "fit.reset_on_epoch" =>
         /\ fit'.epoch.current = fit.epoch.current
         /\ Zeroed(fit.epoch.optim.scheduler.current,
                   fit'.epoch.optim.scheduler.current)
         /\ Zeroed(fit.epoch.optim.optimizer.step.current,
                   fit'.epoch.optim.optimizer.step.current)
         /\ Zeroed(fit.epoch.optim.optimizer.zero_grad.current,
                   fit'.epoch.optim.optimizer.zero_grad.current)
         /\ Zeroed(fit.epoch.batch.current, fit'.epoch.batch.current)]_vars

C10_Witness ==
    /\ fcall.op = "fit.reset_on_epoch"
    /\ fit.epoch.current.completed = 1
    /\ fit.epoch.optim.scheduler.total.completed = 1
    /\ fit.epoch.optim.scheduler.current.completed = 0
    /\ fit.epoch.optim.scheduler.current.started = None

\* ------------------------------------------------------------------------
\* Further claims on the Tracker
\* ------------------------------------------------------------------------

\* C11: Tracker.from_state_dict(m), for a mapping m giving each of the four
\* fields an integer or null, returns a Tracker in which a field is disabled
\* exactly when m gives it null and otherwise holds m's integer; a write to
\* the field afterwards fails exactly when m gave it null.
C11_PartitionFromMapping ==
    /\ (tcall.op = "from_state_dict" /\ DOMAIN tcall.state = Fields) =>
          /\ tcall.raised = "ok"
          /\ \A f \in Fields : tracker[f] = tcall.state[f]
          /\ Disabled(tracker) = {f \in Fields : tcall.state[f] = None}
    /\ (tcall.op = "setattr_restored" /\ DOMAIN tcall.state = Fields) =>
          /\ tcall.raised = "AttributeError" <=> tcall.state[tcall.key] = None
          /\ tcall.raised = "ok" => tracker[tcall.key] = tcall.value

C11_Witness ==
    /\ tcall.op = "setattr_restored"
    /\ DOMAIN tcall.state = Fields
    /\ tcall.state.processed = None
    /\ tcall.state.completed = MapMax
    /\ tcall.key = "processed"
    /\ tcall.value = 0
    /\ tcall.raised = "AttributeError"
    /\ tracker = tcall.state

\* C12: after reset() every enabled field equals 0 and every disabled field
\* is still None; reset() never raises.
C12_ResetZeroes ==
    tcall.op = "reset" =>
        /\ tcall.raised = "ok"
        /\ \A f \in Fields :
              tracker[f] = IF tcall.pre[f] = None THEN None ELSE 0

C12_Witness ==
    /\ tcall.op = "reset"
    /\ tcall.pre.processed = None
    /\ tcall.pre.ready = 2
    /\ tcall.pre.completed = 1
    /\ tracker.ready = 0
    /\ tracker.completed = 0
    /\ tracker.processed = None

\* C19: reset_on_restart() is idempotent (a second application changes
\* nothing) and equalising (afterwards all enabled fields hold one value).
C19_RestartIdempotent ==
    tcall.op = "reset_on_restart" =>
        /\ Tracker_reset_on_restart(tracker) = tracker
        /\ Tracker_reset_on_restart(Tracker_reset_on_restart(tcall.pre))
              = Tracker_reset_on_restart(tcall.pre)
        /\ \A f, g \in Fields \ Disabled(tracker) : tracker[f] = tracker[g]

C19_Witness ==
    /\ tcall.op = "reset_on_restart"
    /\ tcall.pre.processed = None
    /\ tcall.pre.completed = 2
    /\ tcall.pre.ready = 1
    /\ tcall.pre.started = 0
    /\ tracker.ready = 2
    /\ tracker.started = 2
    /\ tracker.completed = 2

\* ------------------------------------------------------------------------
\* Further claims on the FitLoopProgress tree
\* ------------------------------------------------------------------------

\* C13: on a TrainingValLoopPorgress (an EpochLoopProgress that is no
\* FitLoopProgress) increment_epoch_completed() is one epoch boundary:
\* epoch.total.completed grows by one, every enabled field of epoch.current
\* and of epoch.batch.current is 0 afterwards, and epoch.batch.total and the
\* other fields of epoch.total are unchanged.
C13_EpochBoundary ==
    [][fcall'.op = "val.increment_epoch_completed" =>
         LET v == fit.epoch.val.epoch
             w == fit'.epoch.val.epoch
         IN  /\ w.total.completed = v.total.completed + 1
             /\ \A f \in Fields \ {"completed"} : w.total[f] = v.total[f]
             /\ Zeroed(v.current, w.current)
             /\ Zeroed(v.batch.current, w.batch.current)
             /\ w.batch.total = v.batch.total]_vars

C13_Witness ==
    /\ fcall.op = "val.increment_epoch_completed"
    /\ fit.epoch.val.epoch.total.completed = 1
    /\ fit.epoch.val.epoch.current.completed = 0
    /\ fit.epoch.val.epoch.batch.total.ready = 1
    /\ fit.epoch.val.epoch.batch.current.ready = 0

\* C14: on a FitLoopProgress, as long as no increment_* call is made on
\* fit.epoch itself, epoch.current.completed is the number of
\* increment_epoch_completed() calls made and equals epoch.total.completed.
C14_CurrentCountsEpochs ==
    nEpochDirect = 0 =>
        /\ fit.epoch.current.completed = nEpoch
        /\ fit.epoch.current.completed = fit.epoch.total.completed

C14_Witness ==
    /\ fcall.op = "fit.reset_on_epoch"
    /\ nEpoch = 2
    /\ nEpochDirect = 0
    /\ fit.epoch.current.completed = 2
    /\ fit.epoch.total.completed = 2

\* C15: total is monotonic: no call of the loop driver makes an enabled field
\* of any total Tracker of the tree decrease (or disables it).
C15_TotalMonotonic ==
    [][\A node \in ProgressNodes, f \in Fields :
          GetNode(fit, node).total[f] # None =>
             GetNode(fit', node).total[f] >= GetNode(fit, node).total[f]]_vars

C15_Witness ==
    /\ fcall.op = "reset_on_epoch"
    /\ fcall.node = "epoch.optim"
    /\ fit.epoch.optim.optimizer.zero_grad.total.started = 1
    /\ fit.epoch.optim.optimizer.zero_grad.current.started = 0
    /\ fit.epoch.optim.scheduler.total.ready = 1
    /\ fit.epoch.optim.scheduler.current.ready = 0

\* C16: reset_on_epoch() only touches window counters.
\* EpochProgress.reset_on_epoch() changes nothing but batch.current;
\* reset_on_epoch() on any node leaves every total Tracker, dataloader_idx,
\* optimizer_idx and should_check_val unchanged; FitLoopProgress's leaves the
\* whole epoch.val subtree unchanged.
C16_ResetOnEpochFrame ==
    [][/\ (fcall'.op = "reset_on_epoch" /\ fcall'.node = "epoch") =>
             fit' = [fit EXCEPT !.epoch.batch.current =
                                   fit'.epoch.batch.current]
       /\ (fcall'.op = "reset_on_epoch" /\ fcall'.node = "epoch.val.epoch") =>
             fit' = [fit EXCEPT !.epoch.val.epoch.batch.current =
                                   fit'.epoch.val.epoch.batch.current]
       /\ fcall'.op \in {"reset_on_epoch", "fit.reset_on_epoch"} =>
             /\ Totals(fit') = Totals(fit)
             /\ Indexes(fit') = Indexes(fit)
       /\ fcall'.op = "fit.reset_on_epoch" =>
             fit'.epoch.val = fit.epoch.val]_vars

C16_Witness ==
    /\ fcall.op = "reset_on_epoch"
    /\ fcall.node = "epoch"
    /\ fit.epoch.batch.total.completed = 1
    /\ fit.epoch.batch.current.completed = 0
    /\ fit.epoch.dataloader_idx = 1

\* C17: in a fresh tree and after any calls, processed is disabled on total
\* and current of optimizer.step and optimizer.zero_grad, started and
\* processed on those of scheduler, and every other Tracker field is enabled;
\* increment_processed() on step / zero_grad and increment_started() /
\* increment_processed() on scheduler change nothing.
C17_FactoryPartitions ==
    LET Expected(node) ==
            CASE node \in {"epoch.optim.optimizer.step",
                           "epoch.optim.optimizer.zero_grad"} -> {"processed"}
              [] node = "epoch.optim.scheduler" -> {"started", "processed"}
              [] OTHER -> {}
    IN
    /\ \A node \in ProgressNodes :
          /\ Disabled(GetNode(fit, node).total) = Expected(node)
          /\ Disabled(GetNode(fit, node).current) = Expected(node)
    /\ \A node \in ProgressNodes :
          \A stage \in Expected(node) : IncrementNode(fit, node, stage) = fit
    /\ Disabled(OptimizationProgress_default.scheduler.total)
          = {"started", "processed"}
    /\ Disabled(OptimizationProgress_default.optimizer.step.total)
          = {"processed"}

C17_Witness ==
    /\ fcall.op = "increment"
    /\ fcall.node = "epoch.optim.scheduler"
    /\ fcall.stage = "started"
    /\ nops = 2
    /\ fit.epoch.optim.scheduler.total.completed = 1
    /\ fit.epoch.optim.scheduler.total.started = None
    /\ fit.epoch.optim.scheduler.current.started = None

\* C18: under increment_*, increment_epoch_completed and reset_on_epoch calls
\* on a fresh tree, every Progress has 0 <= current.<stage> <= total.<stage>
\* for every enabled stage.
C18_CurrentWithinTotal ==
    \A node \in ProgressNodes, f \in Fields :
        LET p == GetNode(fit, node) IN
        (p.total[f] # None /\ p.current[f] # None) =>
            (0 <= p.current[f] /\ p.current[f] <= p.total[f])

C18_Witness ==
    /\ fit.epoch.batch.total.ready = 2
    /\ fit.epoch.batch.current.ready = 1
    /\ fcall.op = "increment"
    /\ fcall.node = "epoch.batch"

====
